---- MODULE Spec2Model ----
(***************************************************************************)
(* The Lingva failover gateway of MCP-applications, in its two             *)
(* implementations (services/lingva_service.py behind the REST facade of   *)
(* lingva_server.py, and the module-level functions of translate_server.py *)
(* behind the tool-invocation facade), the DeepSeek tool server            *)
(* (server_test.py) and the time service (services/time_service.py).       *)
(*                                                                         *)
(* A call is an asyncio task.  It runs atomically between two awaits, so   *)
(* one action is the code between two suspension points:                   *)
(*   idle --entry--> await_primary --response--> scan | closing            *)
(*   scan --skip test, next request--> await_alt | done                    *)
(*   await_alt --response--> scan | closing ;  closing --return--> done    *)
(* "closing" is the await of the AsyncClient's __aexit__ that a return     *)
(* from inside the `async with` block passes through.                      *)
(***************************************************************************)
EXTENDS Integers, Sequences, FiniteSets, TLC

\* ------------------------------------------------------------------ bounds
\* number of calls (asyncio tasks) one run of a server receives
NumCalls == 2
\* number of --add-api endpoints given on the command line
MaxAdded == 1

Calls == 1..NumCalls

\* ------------------------------------------------------------- endpoints
Garuda == "https://lingva.garudalinux.org/api/v1"
Pussthecat == "https://lingva.pussthecat.org/api/v1"
Plausibility == "https://translate.plausibility.cloud/api/v1"
Dr460nf1r3 == "https://translate.dr460nf1r3.org/api/v1"
\* a URL given by --api-url or LINGVA_API_URL that is not in the alternatives
CustomUrl == "https://lingva.example.org/api/v1"
\* URLs given by --add-api
AddedUrls == <<"https://added1.example.org/api/v1", "https://added2.example.org/api/v1">>
DeepseekUrl == "https://api.deepseek.com"

\* LINGVA_API_ALTERNATIVES / LingvaService.api_alternatives as constructed
DefaultAlternatives == <<Garuda, Pussthecat, Plausibility, Dr460nf1r3>>

\* the alternatives list after the --add-api loop appended n new endpoints
ConfiguredAlternatives(n) == DefaultAlternatives \o SubSeq(AddedUrls, 1, n)

\* the configurations at start: the primary that LINGVA_API_URL / --api-url
\* set (by default the first alternative) and the number of --add-api endpoints
Configurations ==
    { <<Garuda, MaxAdded>>, <<Plausibility, 0>>, <<CustomUrl, 0>> }

\* the servers that hold a failover gateway
GatewayServers == {"lingva_server", "translate_server"}
NoUrl == ""
Servers == {"lingva_server", "translate_server", "deepseek_server", "time_server",
            "multi_server"}

\* ---------------------------------------------------------------- inputs
\* texts are sequences of characters, so that urllib.parse.quote is modelled
RECURSIVE Quote(_)
\* urllib.parse.quote(text): letters and "/" are safe, the rest is %XX
Quote(s) ==
    IF s = <<>> THEN <<>>
    ELSE LET ch == Head(s)
             enc == IF ch = " " THEN <<"%", "2", "0">>
                    ELSE IF ch = "%" THEN <<"%", "2", "5">>
                    ELSE <<ch>>
         IN  enc \o Quote(Tail(s))

\* the caller's parameters: a mapping from argument names to values
Hi == <<"h", "i">>
AB == <<"a", " ", "b">>
Args1 == [text |-> Hi, target_lang |-> "fr"]
Args2 == [text |-> AB, source_lang |-> "en", target_lang |-> "zh"]
ArgsNoTarget == [text |-> Hi]
ArgsNoText == [target_lang |-> "fr"]
ArgsPrompt == [prompt |-> Hi]
ArgsEmpty == [k \in {} |-> Hi]

\* arguments as call_tool receives them: isdict is isinstance(arguments, dict)
ToolArguments ==
    { [isdict |-> TRUE, map |-> m] :
          m \in {Args1, Args2, ArgsNoTarget, ArgsNoText, ArgsPrompt, ArgsEmpty} }
    \cup { [isdict |-> FALSE, map |-> ArgsEmpty] }

ToolNames == {"translate_text", "ask_deepseek", "get_current_time"}

\* resource URIs, as <<scheme prefix, host, last path segment>>
ResourceUris ==
    { <<"translate://", "lingva", "/query">>,
      <<"translate://", "lingva", "/info">>,
      <<"deepseek://", "deepseek-chat", "/query">>,
      <<"http://", "lingva", "/query">> }

\* the outcomes of one upstream attempt
\*   ok        2xx, well-formed body (with the translation field for translate)
\*   transport client.get raises
\*   status    raise_for_status raises
\*   badjson   2xx, response.json() raises
\*   nofield   2xx, JSON body without "translation" (translate only)
TranslateOutcomes == {"ok", "transport", "status", "badjson", "nofield"}
LanguagesOutcomes == {"ok", "transport", "status", "badjson"}
Outcomes(o) == IF o = "translate" THEN TranslateOutcomes ELSE LanguagesOutcomes

VARIABLES
    server,        \* which server process this is
    primary,       \* LINGVA_API_URL / self.primary_api_url
    alternatives,  \* LINGVA_API_ALTERNATIVES / self.api_alternatives
    pc,            \* pc[c]: where task c is suspended
    op,            \* op[c]: "translate", "languages", "ask" or "none"
    req,           \* req[c]: (text, source_lang, target_lang) of a translate call
    idx,           \* idx[c]: position of the for loop in the alternatives
    errors,        \* errors[c]: the local list errors, one tag per message
    data,          \* data[c]: the local data, the last body json() parsed (in the
                   \* multi-service facade: the local response)
    result,        \* result[c]: what the call returned or raised
    attempts,      \* attempts[c]: the URLs the call sent a request to, in order
    entry,         \* entry[c]: the facade request that started the call
    overlap,       \* overlap[c]: another call was active while c was
    lastWriter,    \* the call that assigned the primary last (0: none yet)
    twin           \* the two gateway codes side by side: per code its primary
                   \* and what its last call did (used when both are driven by
                   \* the same calls and the same upstream answers)

vars == <<server, primary, alternatives, pc, op, req, idx, errors, data, result,
          attempts, entry, overlap, lastWriter, twin>>

\* ------------------------------------------------------- upstream replies
\* response.json() of a 2xx reply to GET {url}/{source}/{target}/{encoded text}
TranslateBody(url, r, out) ==
    IF out = "ok"
    THEN [translation |-> [by |-> url,
                           path |-> <<r.source_lang, r.target_lang, Quote(r.text)>>]]
    ELSE [error |-> "no translation"]

\* response.json() of a 2xx reply to GET {url}/languages
LanguagesBody(url) == <<"auto", "en", "zh", "es">>

NoData == [none |-> TRUE]
NoRequest == [text |-> <<>>, source_lang |-> "", target_lang |-> ""]
NoResult == [kind |-> "none"]

\* ------------------------------------------------- the two gateway codes
\* the gateway a server process runs
Impl == IF server = "lingva_server" THEN "service" ELSE "module"

\* response.json() returned (it is reached and does not raise)
JsonParsed(out) == out \in {"ok", "nofield"}

\* the whole try block of an attempt ran without raising
AttemptSucceeds(o, out) == out = "ok"

\* no attempt assigns the primary
PromotesOnAlt_Never(impl, o, out) == FALSE

\* the assignment of the alternative to the primary is executed by an
\* alternative's attempt with this outcome:
\*   LingvaService.translate_text   after json(), before data["translation"]
\*   translate_server.translate_text after the result dict is built
\*   get_available_languages (both)  after raise_for_status, before json()
PromotesOnAlt(impl, o, out) ==
    IF o = "languages" THEN out \in {"ok", "badjson"}
    ELSE IF impl = "service" THEN out \in {"ok", "nofield"}
    ELSE out = "ok"

\* the assignment writes the URL of the environment, not the alternative
NewPrimary_Environment(cur, first, alt) == CustomUrl

\* the assignment guarded by a compare-and-swap on the URL attempted first
NewPrimary_CompareAndSwap(cur, first, alt) == IF cur = first THEN alt ELSE cur

\* `primary = alt_api_url`: the assignment is unconditional, whatever the
\* primary is now (cur) and whatever URL this call attempted first (first)
NewPrimary(cur, first, alt) == alt

\* the loop has no skip test
SkipAlt_Never(alt, prim) == FALSE

\* `if alt_api_url == primary: continue`
SkipAlt(alt, prim) == alt = prim

\* the dict of an alternative's attempt, returned for the primary
ShapePrimary_ApiUsed(r, d) ==
    [original_text |-> r.text,
     translated_text |-> d.translation,
     source_language |-> r.source_lang,
     target_language |-> r.target_lang,
     timestamp |-> "now",
     api_used |-> "primary"]

\* the dict returned for an attempt on the primary
ShapePrimary(r, d) ==
    [original_text |-> r.text,
     translated_text |-> d.translation,
     source_language |-> r.source_lang,
     target_language |-> r.target_lang,
     timestamp |-> "now"]

\* the dict carries the percent-encoded text
ShapeAlternative_Encoded(r, d, alt) ==
    [original_text |-> Quote(r.text),
     translated_text |-> d.translation,
     source_language |-> r.source_lang,
     target_language |-> r.target_lang,
     timestamp |-> "now",
     api_used |-> alt]

\* the dict returned for an attempt on an alternative
ShapeAlternative(r, d, alt) ==
    [original_text |-> r.text,
     translated_text |-> d.translation,
     source_language |-> r.source_lang,
     target_language |-> r.target_lang,
     timestamp |-> "now",
     api_used |-> alt]

\* errors.append(f"Primary API error: ...")
PrimaryError(errs) == Append(errs, "primary")

\* the message is put in front of the list instead of at its end
AlternativeError_Prepended(errs, alt) == <<alt>> \o errs

\* errors.append(f"Alternative API {alt_api_url} error: ...")
AlternativeError(errs, alt) == Append(errs, alt)

\* raise RuntimeError("All Lingva API endpoints failed: " + "\n".join(errors))
AllFailed(errs) ==
    [kind |-> "raised", error |-> "RuntimeError",
     message |-> <<"All Lingva API endpoints failed">> \o errs]

\* the basic list get_available_languages returns when every attempt failed
DefaultLanguages(impl) ==
    IF impl = "service" THEN <<"auto", "en", "zh">>
    ELSE <<"auto", "en", "zh", "es", "fr", "de", "ja", "ko", "ru">>

Returned(v) == [kind |-> "ok", value |-> v]

\* list-languages raises like translate
Exhausted_Raises(o, impl, errs) == AllFailed(errs)

\* the code after the for loop: translate_text raises the aggregated error,
\* get_available_languages returns the basic list
Exhausted(o, impl, errs) ==
    IF o = "translate" THEN AllFailed(errs) ELSE Returned(DefaultLanguages(impl))

\* ------------------------------------------------------------ bookkeeping
Active(c) == pc[c] \notin {"idle", "done"}

\* calls are numbered in their order of arrival
Arrives(c) == pc[c] = "idle" /\ \A d \in Calls : d < c => pc[d] # "idle"

\* call c starts: it overlaps every call that is active now
OverlapBegin(c) ==
    [d \in Calls |->
        IF d = c THEN \E e \in Calls \ {c} : Active(e)
        ELSE IF Active(d) THEN TRUE
        ELSE overlap[d]]

\* ---------------------------------------------------------------- facades
\* the parameters the caller gave
Given(c) == entry[c].arguments.map

NoArguments == [isdict |-> FALSE, map |-> ArgsEmpty]
NoUri == <<"", "", "">>
NoEntry == [via |-> "none", name |-> "", arguments |-> NoArguments, uri |-> NoUri]

\* the tool a server registers, the arguments it requires, its resource scheme
RegisteredTool(srv) == IF srv = "deepseek_server" THEN "ask_deepseek" ELSE "translate_text"
RequiredArguments(srv) == IF srv = "deepseek_server" THEN {"prompt"} ELSE {"text", "target_lang"}
ResourceScheme(srv) == IF srv = "deepseek_server" THEN "deepseek://" ELSE "translate://"

\* call_tool without the check of the tool name
CallToolRejects_AnyName(srv, name, arguments) ==
    \/ ~arguments.isdict
    \/ \E k \in RequiredArguments(srv) : k \notin DOMAIN arguments.map

\* call_tool raises ValueError before anything else
CallToolRejects(srv, name, arguments) ==
    \/ name # RegisteredTool(srv)
    \/ ~arguments.isdict
    \/ \E k \in RequiredArguments(srv) : k \notin DOMAIN arguments.map

\* str(uri).startswith(scheme) and str(uri).endswith("/query")
ResourceMatches(srv, uri) == uri[1] = ResourceScheme(srv) /\ uri[3] = "/query"

ValueError(msg) == [kind |-> "raised", error |-> "ValueError", message |-> <<msg>>]

\* text, source_lang (default "auto") and target_lang (default "zh" on the
\* REST routes, required by call_tool) of a translate request
TranslateRequest(m) ==
    [text |-> m.text,
     source_lang |-> IF "source_lang" \in DOMAIN m THEN m.source_lang ELSE "auto",
     target_lang |-> IF "target_lang" \in DOMAIN m THEN m.target_lang ELSE "zh"]

\* the first lines of translate_text / get_available_languages up to the
\* await of the request to the primary
GatewayBegin(c, o, r, e) ==
    /\ pc' = [pc EXCEPT ![c] = "await_primary"]
    /\ op' = [op EXCEPT ![c] = o]
    /\ req' = [req EXCEPT ![c] = r]
    /\ errors' = [errors EXCEPT ![c] = <<>>]
    /\ attempts' = [attempts EXCEPT ![c] = <<primary>>]
    /\ entry' = [entry EXCEPT ![c] = e]
    /\ overlap' = OverlapBegin(c)
    /\ UNCHANGED <<server, twin, primary, alternatives, idx, data, result, lastWriter>>

\* a handler that ends without suspending and without touching the gateway
Immediate(c, o, e, res, urls) ==
    /\ pc' = [pc EXCEPT ![c] = "done"]
    /\ op' = [op EXCEPT ![c] = o]
    /\ entry' = [entry EXCEPT ![c] = e]
    /\ result' = [result EXCEPT ![c] = res]
    /\ attempts' = [attempts EXCEPT ![c] = urls]
    /\ UNCHANGED <<server, twin, primary, alternatives, req, idx, errors, data, overlap,
                   lastWriter>>

\* POST /api/translate and GET /api/translate of lingva_server.py
RestTranslate(c, m) ==
    /\ server = "lingva_server"
    /\ Arrives(c)
    /\ GatewayBegin(c, "translate", TranslateRequest(m),
                    [NoEntry EXCEPT !.via = "rest_translate",
                                    !.arguments = [isdict |-> TRUE, map |-> m]])

\* GET /api/languages of lingva_server.py
RestLanguages(c) ==
    /\ server = "lingva_server"
    /\ Arrives(c)
    /\ GatewayBegin(c, "languages", NoRequest,
                    [NoEntry EXCEPT !.via = "rest_languages"])

\* call_tool of translate_server.py and of the DeepSeek server; query_deepseek
\* calls the blocking OpenAI client, so the whole handler is one step
CallTool(c, name, arguments, out) ==
    /\ server \in {"translate_server", "deepseek_server"}
    /\ Arrives(c)
    /\ LET e == [NoEntry EXCEPT !.via = "call_tool", !.name = name,
                                !.arguments = arguments]
       IN  IF CallToolRejects(server, name, arguments)
           THEN /\ out = "ok"
                /\ Immediate(c, "none", e, ValueError("invalid call"), <<>>)
           ELSE IF server = "translate_server"
           THEN /\ out = "ok"
                /\ GatewayBegin(c, "translate", TranslateRequest(arguments.map), e)
           ELSE Immediate(c, "ask", e,
                          IF out = "ok"
                          THEN Returned(<<"response">>)
                          ELSE [kind |-> "raised", error |-> "RuntimeError",
                                message |-> <<"DeepSeek API error">>],
                          <<DeepseekUrl>>)

\* read_resource of translate_server.py and of the DeepSeek server
ReadResource(c, uri) ==
    /\ server \in {"translate_server", "deepseek_server"}
    /\ Arrives(c)
    /\ LET e == [NoEntry EXCEPT !.via = "read_resource", !.uri = uri]
       IN  IF ~ResourceMatches(server, uri)
           THEN Immediate(c, "none", e, ValueError("Unknown resource"), <<>>)
           ELSE IF server = "translate_server"
           THEN GatewayBegin(c, "languages", NoRequest, e)
           ELSE Immediate(c, "info", e, Returned(<<uri[2]>>), <<>>)

\* ----------------------------------------------------------- time service
\* pytz.all_timezones, as far as the requests name them, with the offset
\* from UTC in hours
KnownTimezones == {"UTC", "Asia/Shanghai", "America/New_York"}
UtcOffset(tz) == IF tz = "Asia/Shanghai" THEN 8
                 ELSE IF tz = "America/New_York" THEN 19
                 ELSE 0
\* names a request can give
TimezoneNames == {"UTC", "Asia/Shanghai", "Mars/Olympus", "utc"}
DefaultFormat == "%Y-%m-%d %H:%M:%S"
\* strftime raises on the last one (an embedded null character)
Formats == {DefaultFormat, "%H", "NUL"}
\* hours of the day the clock shows in the runs
MaxHour == 1
Hours == (0..MaxHour) \cup {23}

\* local_now.strftime(format_str), for the hour h of the day
Strftime(h, fmt) ==
    IF fmt = "%H" THEN <<h>> ELSE <<"%Y-%m-%d", h, "%M:%S">>

\* the unknown name is kept in the result
GetCurrentTime_KeepsName(timezone, format_str, now) ==
    Returned([current_time |-> Strftime(now, format_str),
              timezone |-> timezone,
              format |-> format_str,
              utc_time |-> Strftime(now, format_str),
              timestamp |-> now])

\* TimeService.get_current_time(timezone, format_str) at utc hour now
GetCurrentTime(timezone, format_str, now) ==
    LET tz == IF timezone \notin KnownTimezones THEN "UTC" ELSE timezone
        local_now == (now + UtcOffset(tz)) % 24
    IN  IF format_str = "NUL"
        THEN [kind |-> "raised", error |-> "RuntimeError",
              message |-> <<"Error getting current time">>]
        ELSE Returned([current_time |-> Strftime(local_now, format_str),
                       timezone |-> tz,
                       format |-> format_str,
                       utc_time |-> Strftime(now, format_str),
                       timestamp |-> now])

\* the parameters of the /api/time routes, with their defaults
TimeRequest(m) ==
    [timezone |-> IF "timezone" \in DOMAIN m THEN m.timezone ELSE "UTC",
     format |-> IF "format" \in DOMAIN m THEN m.format ELSE DefaultFormat]

TimeParams ==
    { [timezone |-> tz, format |-> f] : tz \in TimezoneNames, f \in Formats }
    \cup { [timezone |-> "America/New_York"], [timezone |-> ""], ArgsEmpty }

\* the route answers an exception with a 200 body that has success=false
RestReply_SoftError(res) ==
    IF res.kind = "ok"
    THEN [status |-> 200, success |-> TRUE, body |-> res.value]
    ELSE [status |-> 200, success |-> FALSE, detail |-> res.message]

\* what a REST route answers for the result of its service call
RestReply(res) ==
    IF res.kind = "ok"
    THEN [status |-> 200, success |-> TRUE, body |-> res.value]
    ELSE [status |-> 500, success |-> FALSE, detail |-> res.message]

\* POST /api/time and GET /api/time of time_server.py: get_current_time
\* has no await, the handler is one step
RestTime(c, m, now) ==
    /\ server = "time_server"
    /\ Arrives(c)
    /\ Immediate(c, "time",
                 [NoEntry EXCEPT !.via = "rest_time",
                                 !.arguments = [isdict |-> TRUE, map |-> m]],
                 GetCurrentTime(TimeRequest(m).timezone, TimeRequest(m).format, now),
                 <<>>)

\* ------------------------------------------------ multi-service facade
\* LINGVA_API_URL and TIME_API_URL of fast_multi_server.py: the REST servers
LingvaBackend == "http://localhost:8001/api"
TimeBackend == "http://localhost:8002/api"
FacadeTools == {"translate_text", "get_current_time"}

\* what the REST server can answer to the request of a facade tool: for
\* translate_text a success the primary served, a success an alternative
\* served, or the aggregated error of a total failure; for get_current_time
\* the time or the error of the time service
BackendReplies(tool, m) ==
    IF tool = "translate_text"
    THEN LET r == TranslateRequest(m)
         IN  { RestReply(Returned(ShapePrimary(r, TranslateBody(Garuda, r, "ok")))),
               RestReply(Returned(ShapeAlternative(
                   r, TranslateBody(Pussthecat, r, "ok"), Pussthecat))),
               RestReply(AllFailed(<<"primary", Pussthecat, Plausibility,
                                     Dr460nf1r3>>)) }
    ELSE { RestReply(GetCurrentTime(TimeRequest(m).timezone, TimeRequest(m).format, 0)) }

\* raise_for_status() raises httpx.HTTPStatusError, which is no
\* httpx.RequestError: the except clause of the tools does not catch it
HTTPStatusError(status) ==
    [kind |-> "raised", error |-> "HTTPStatusError",
     message |-> <<"Server error", status>>]

\* the rest of a tool of the facade once client.get has ended: out is
\* "transport" when it raised an httpx.RequestError, else reply is the response
ToolResult(tool, out, reply) ==
    IF out = "transport"
    THEN Returned(<<"API request error", "transport">>)
    ELSE IF reply.status >= 400
    THEN HTTPStatusError(reply.status)
    ELSE IF ~reply.success
    THEN Returned(<<"failed">> \o reply.detail)
    ELSE IF tool = "translate_text"
    THEN Returned(<<"source", reply.body.source_language, reply.body.original_text,
                    "translation", reply.body.target_language,
                    reply.body.translated_text, "time", reply.body.timestamp>>)
    ELSE Returned(<<reply.body.current_time, reply.body.timezone, reply.body.format,
                    reply.body.utc_time, reply.body.timestamp>>)

\* the tools translate_text and get_current_time of fast_multi_server.py up
\* to the await of client.get
ToolCall(c, tool, m) ==
    /\ server = "multi_server"
    /\ Arrives(c)
    /\ pc' = [pc EXCEPT ![c] = "await_backend"]
    /\ op' = [op EXCEPT ![c] = IF tool = "translate_text" THEN "tool_translate"
                                ELSE "tool_time"]
    /\ req' = [req EXCEPT ![c] = IF tool = "translate_text" THEN TranslateRequest(m)
                                  ELSE NoRequest]
    /\ attempts' = [attempts EXCEPT ![c] = IF tool = "translate_text"
                                            THEN <<LingvaBackend>> ELSE <<TimeBackend>>]
    /\ entry' = [entry EXCEPT ![c] = [NoEntry EXCEPT !.via = "tool", !.name = tool,
                                          !.arguments = [isdict |-> TRUE, map |-> m]]]
    /\ overlap' = OverlapBegin(c)
    /\ UNCHANGED <<server, twin, primary, alternatives, idx, errors, data, result, lastWriter>>

\* client.get of a tool ends: the rest of the tool; leaving the
\* `async with` block is the next step
ToolResponse(c, out) ==
    /\ pc[c] = "await_backend"
    /\ \E reply \in BackendReplies(entry[c].name, Given(c)) :
          /\ data' = [data EXCEPT ![c] = IF out = "transport" THEN @
                                          ELSE [response |-> reply]]
          /\ result' = [result EXCEPT ![c] = ToolResult(entry[c].name, out, reply)]
    /\ pc' = [pc EXCEPT ![c] = "closing"]
    /\ UNCHANGED <<server, twin, primary, alternatives, op, req, idx, errors, attempts,
                   entry, overlap, lastWriter>>

\* ------------------------------------------------------- the gateway steps
\* the reply of the primary arrives: the rest of the first try block
PrimaryResponse(c, out) ==
    /\ pc[c] = "await_primary"
    /\ out \in Outcomes(op[c])
    /\ LET url == attempts[c][1]
           body == TranslateBody(url, req[c], out)
       IN  /\ data' = [data EXCEPT ![c] =
                          IF op[c] = "translate" /\ JsonParsed(out) THEN body ELSE @]
           /\ IF AttemptSucceeds(op[c], out)
              THEN /\ result' = [result EXCEPT ![c] =
                                    IF op[c] = "translate"
                                    THEN Returned(ShapePrimary(req[c], body))
                                    ELSE Returned(LanguagesBody(url))]
                   /\ pc' = [pc EXCEPT ![c] = "closing"]
                   /\ UNCHANGED <<errors, idx>>
              ELSE /\ errors' = [errors EXCEPT ![c] = PrimaryError(@)]
                   /\ idx' = [idx EXCEPT ![c] = 1]
                   /\ pc' = [pc EXCEPT ![c] = "scan"]
                   /\ UNCHANGED result
    /\ UNCHANGED <<server, twin, primary, alternatives, op, req, attempts, entry, overlap,
                   lastWriter>>

\* the loop starts again at the head of the list
Candidates_Restart(i) ==
    { j \in 1..Len(alternatives) : ~SkipAlt(alternatives[j], primary) }

\* the loop starts behind the position of the primary in the list
Candidates_AfterPrimary(i) ==
    { j \in i..Len(alternatives) :
         /\ ~SkipAlt(alternatives[j], primary)
         /\ \A k \in j..Len(alternatives) : alternatives[k] # primary }

\* the loop leaves out the first alternative (the default primary)
Candidates_FromSecond(i) ==
    { j \in i..Len(alternatives) : j > 1 /\ ~SkipAlt(alternatives[j], primary) }

\* the positions from i on whose alternative is not skipped, read now
Candidates(i) ==
    { j \in i..Len(alternatives) : ~SkipAlt(alternatives[j], primary) }

\* the last position instead of the first
Min_Last(S) == CHOOSE x \in S : \A y \in S : x >= y

\* the first of the positions S
Min(S) == CHOOSE x \in S : \A y \in S : x <= y

\* the for loop runs from position idx[c] to its next await: it skips the
\* alternatives equal to the primary and sends the next request, or it falls
\* out of the loop and the call ends (translate raises, list-languages
\* returns the basic list)
Scan(c) ==
    /\ pc[c] = "scan"
    /\ IF Candidates(idx[c]) # {}
       THEN LET j == Min(Candidates(idx[c]))
            IN  /\ idx' = [idx EXCEPT ![c] = j]
                /\ attempts' = [attempts EXCEPT ![c] = Append(@, alternatives[j])]
                /\ pc' = [pc EXCEPT ![c] = "await_alt"]
                /\ UNCHANGED result
       ELSE /\ idx' = [idx EXCEPT ![c] = Len(alternatives) + 1]
            /\ result' = [result EXCEPT ![c] = Exhausted(op[c], Impl, errors[c])]
            /\ pc' = [pc EXCEPT ![c] = "done"]
            /\ UNCHANGED attempts
    /\ UNCHANGED <<server, twin, primary, alternatives, op, req, errors, data, entry,
                   overlap, lastWriter>>

\* the reply of alternative idx[c] arrives: the rest of the try block in the loop
AltResponse(c, out) ==
    /\ pc[c] = "await_alt"
    /\ out \in Outcomes(op[c])
    /\ LET alt == alternatives[idx[c]]
           body == TranslateBody(alt, req[c], out)
       IN  /\ data' = [data EXCEPT ![c] =
                          IF op[c] = "translate" /\ JsonParsed(out) THEN body ELSE @]
           /\ IF PromotesOnAlt(Impl, op[c], out)
              THEN /\ primary' = NewPrimary(primary, attempts[c][1], alt)
                   /\ lastWriter' = c
              ELSE UNCHANGED <<primary, lastWriter>>
           /\ IF AttemptSucceeds(op[c], out)
              THEN /\ result' = [result EXCEPT ![c] =
                                    IF op[c] = "translate"
                                    THEN Returned(ShapeAlternative(req[c], body, alt))
                                    ELSE Returned(LanguagesBody(alt))]
                   /\ pc' = [pc EXCEPT ![c] = "closing"]
                   /\ UNCHANGED <<errors, idx>>
              ELSE /\ errors' = [errors EXCEPT ![c] = AlternativeError(@, alt)]
                   /\ idx' = [idx EXCEPT ![c] = @ + 1]
                   /\ pc' = [pc EXCEPT ![c] = "scan"]
                   /\ UNCHANGED result
    /\ UNCHANGED <<server, twin, alternatives, op, req, attempts, entry, overlap>>

\* the client is closed and the call returns to its caller
Return(c) ==
    /\ pc[c] = "closing"
    /\ pc' = [pc EXCEPT ![c] = "done"]
    /\ UNCHANGED <<server, twin, primary, alternatives, op, req, idx, errors, data, result,
                   attempts, entry, overlap, lastWriter>>

\* ------------------------------------------------------------ specification
\* no request has arrived yet
NoCallYet ==
    /\ pc = [c \in Calls |-> "idle"]
    /\ op = [c \in Calls |-> "none"]
    /\ req = [c \in Calls |-> NoRequest]
    /\ idx = [c \in Calls |-> 0]
    /\ errors = [c \in Calls |-> <<>>]
    /\ data = [c \in Calls |-> NoData]
    /\ result = [c \in Calls |-> NoResult]
    /\ attempts = [c \in Calls |-> <<>>]
    /\ entry = [c \in Calls |-> NoEntry]
    /\ overlap = [c \in Calls |-> FALSE]
    /\ lastWriter = 0

NoTwin == [calls |-> 0]

Init ==
    /\ server \in Servers
    /\ IF server \in GatewayServers
       THEN \E cfg \in Configurations :
               /\ primary = cfg[1]
               /\ alternatives = ConfiguredAlternatives(cfg[2])
       ELSE primary = NoUrl /\ alternatives = <<>>
    /\ NoCallYet
    /\ twin = NoTwin

Next ==
    \E c \in Calls :
        \/ \E m \in {Args2, ArgsNoTarget} : RestTranslate(c, m)
        \/ RestLanguages(c)
        \/ \E name \in ToolNames, arguments \in ToolArguments, out \in {"ok", "error"} :
              CallTool(c, name, arguments, out)
        \/ \E uri \in ResourceUris : ReadResource(c, uri)
        \/ \E m \in TimeParams, now \in Hours : RestTime(c, m, now)
        \/ \E m \in {Args2, ArgsNoTarget} : ToolCall(c, "translate_text", m)
        \/ \E m \in {ArgsEmpty, [format |-> "NUL"]} : ToolCall(c, "get_current_time", m)
        \/ \E out \in {"reply", "transport"} : ToolResponse(c, out)
        \/ \E out \in TranslateOutcomes : PrimaryResponse(c, out)
        \/ Scan(c)
        \/ \E out \in TranslateOutcomes : AltResponse(c, out)
        \/ Return(c)

Spec == Init /\ [][Next]_vars

\* every request sent gets its answer or its failure (each attempt has a
\* timeout), and the event loop resumes a task that can run: as long as a
\* call can take a step, some call takes one
Responds(c) ==
    \/ \E out \in TranslateOutcomes : PrimaryResponse(c, out)
    \/ \E out \in TranslateOutcomes : AltResponse(c, out)

Resumes(c) == Scan(c) \/ Return(c)

Progress == \E c \in Calls : Responds(c) \/ Resumes(c)

\* the two gateway servers with valid requests
InitLive == Init /\ server \in GatewayServers

NextLive ==
    \E c \in Calls :
        \/ RestTranslate(c, Args2)
        \/ RestLanguages(c)
        \/ CallTool(c, "translate_text", [isdict |-> TRUE, map |-> Args2], "ok")
        \/ ReadResource(c, <<"translate://", "lingva", "/query">>)
        \/ \E out \in TranslateOutcomes : PrimaryResponse(c, out)
        \/ Scan(c)
        \/ \E out \in TranslateOutcomes : AltResponse(c, out)
        \/ Return(c)

SpecLive == InitLive /\ [][NextLive]_vars /\ WF_vars(Progress)

\* the time server alone (time_server.py)
InitTime == Init /\ server = "time_server"

NextTime == \E c \in Calls : \E m \in TimeParams, now \in Hours : RestTime(c, m, now)

SpecTime == InitTime /\ [][NextTime]_vars

\* ------------------------------------- the two gateway codes side by side
\* LingvaService and the functions of translate_server.py, started with the
\* same primary and alternatives, are given the same calls one after the
\* other; within a call every endpoint has one answer for both codes
Codes == {"service", "module"}
\* calls given to the pair in a run
MaxTwinCalls == 2

\* the endpoints a call of the pair can send a request to
TwinEndpoints ==
    { alternatives[i] : i \in DOMAIN alternatives }
        \cup { twin[code].primary : code \in Codes }

\* what a call that ran alone did: the requests it sent, what it returned or
\* raised, and the primary it left
Outcome(atts, res, prim) == [attempts |-> atts, result |-> res, primary |-> prim]

\* the for loop over the alternatives of a call that no other call overlaps,
\* from position i on; answer[url] is the outcome of the attempt on url
RECURSIVE ScanAlone(_, _, _, _, _, _, _, _)
ScanAlone(impl, o, r, answer, prim, i, atts, errs) ==
    IF i > Len(alternatives)
    THEN Outcome(atts, Exhausted(o, impl, errs), prim)
    ELSE LET alt == alternatives[i]
             out == answer[alt]
             now == IF PromotesOnAlt(impl, o, out)
                    THEN NewPrimary(prim, atts[1], alt) ELSE prim
         IN  IF SkipAlt(alt, prim)
             THEN ScanAlone(impl, o, r, answer, prim, i + 1, atts, errs)
             ELSE IF AttemptSucceeds(o, out)
             THEN Outcome(Append(atts, alt),
                          IF o = "translate"
                          THEN Returned(ShapeAlternative(
                                   r, TranslateBody(alt, r, out), alt))
                          ELSE Returned(LanguagesBody(alt)),
                          now)
             ELSE ScanAlone(impl, o, r, answer, now, i + 1, Append(atts, alt),
                            AlternativeError(errs, alt))

\* translate_text / get_available_languages from the first line to the
\* return or raise, for a call that no other call overlaps
CallAlone(impl, o, r, answer, prim) ==
    IF AttemptSucceeds(o, answer[prim])
    THEN Outcome(<<prim>>,
                 IF o = "translate"
                 THEN Returned(ShapePrimary(r, TranslateBody(prim, r, answer[prim])))
                 ELSE Returned(LanguagesBody(prim)),
                 prim)
    ELSE ScanAlone(impl, o, r, answer, prim, 1, <<prim>>, PrimaryError(<<>>))

\* the same call, with the same answers of the endpoints, on both codes
TwinCall(o, r, answer) ==
    /\ server = "gateway_pair"
    /\ twin.calls < MaxTwinCalls
    /\ twin' = [calls |-> twin.calls + 1,
                op |-> o,
                service |-> CallAlone("service", o, r, answer, twin.service.primary),
                module |-> CallAlone("module", o, r, answer, twin.module.primary)]
    /\ UNCHANGED <<server, primary, alternatives, pc, op, req, idx, errors, data,
                   result, attempts, entry, overlap, lastWriter>>

TwinTranslate ==
    \E answer \in [TwinEndpoints -> TranslateOutcomes] :
        TwinCall("translate", TranslateRequest(Args2), answer)

TwinLanguages ==
    \E answer \in [TwinEndpoints -> LanguagesOutcomes] :
        TwinCall("languages", NoRequest, answer)

InitTwin ==
    /\ server = "gateway_pair"
    /\ primary = NoUrl
    /\ NoCallYet
    /\ \E cfg \in Configurations :
          /\ alternatives = ConfiguredAlternatives(cfg[2])
          /\ twin = [calls |-> 0,
                     op |-> "none",
                     service |-> Outcome(<<>>, NoResult, cfg[1]),
                     module |-> Outcome(<<>>, NoResult, cfg[1])]

NextTwin == TwinTranslate \/ TwinLanguages

SpecTwin == InitTwin /\ [][NextTwin]_vars

\* ------------------------------------------------------------------ claims
Done(c) == pc[c] = "done"
Alone(c) == ~overlap[c]
Succeeded(c) == Done(c) /\ result[c].kind = "ok"
Range(f) == { f[i] : i \in DOMAIN f }
\* the URL of the last request the call sent
LastUrl(c) == attempts[c][Len(attempts[c])]
\* every attempt of the call so far recorded an error
AllAttemptsFailed(c) == Len(errors[c]) = Len(attempts[c])
\* a translate or list-languages call that an alternative served
ServedByAlternative(c) ==
    /\ op[c] \in {"translate", "languages"}
    /\ Succeeded(c)
    /\ Len(attempts[c]) > 1
    /\ ~AllAttemptsFailed(c)
\* a translate or list-languages call that the primary served
ServedByPrimary(c) ==
    /\ op[c] \in {"translate", "languages"}
    /\ Succeeded(c)
    /\ Len(attempts[c]) = 1
\* the call that arrives right after c, when both run alone
Follows(d, c) == d = c + 1 /\ Alone(c) /\ Alone(d)

\* C1: a translate call running alone whose primary attempt failed and that
\* alternative k served leaves the primary equal to k's URL when it returns;
\* the next translate call attempts k's URL first and, if that attempt
\* succeeds, never contacts the original primary.
C1_PromotedAlternativeServesNext ==
    \A c \in Calls :
        (op[c] = "translate" /\ ServedByAlternative(c) /\ Alone(c)) =>
            /\ (\A d \in Calls : d > c => pc[d] = "idle") => primary = LastUrl(c)
            /\ \A d \in Calls :
                  (Follows(d, c) /\ op[d] = "translate" /\ attempts[d] # <<>>) =>
                      /\ attempts[d][1] = LastUrl(c)
                      /\ ServedByPrimary(d) => attempts[c][1] \notin Range(attempts[d])

\* the position of an alternative in the configured list
Position(url) == CHOOSE i \in DOMAIN alternatives : alternatives[i] = url
\* a translate call that ended with the total-failure error
TotalFailure(c) ==
    /\ op[c] = "translate"
    /\ Done(c)
    /\ result[c].kind = "raised"
\* the messages of the aggregated error, after its fixed head
Messages(c) == Tail(result[c].message)

\* C2 as stated: the error of a translate call whose attempts all failed has
\* exactly one message per attempted endpoint, in attempt order, the primary's
\* first, then the alternatives' in list order; no attempted endpoint is
\* missing and none appears twice.
C2_OneMessagePerEndpoint ==
    \A c \in Calls :
        TotalFailure(c) =>
            /\ Len(Messages(c)) = Len(attempts[c])
            /\ Messages(c)[1] = "primary"
            /\ \A j \in 2..Len(attempts[c]) : Messages(c)[j] = attempts[c][j]
            /\ \A j, k \in 2..Len(attempts[c]) :
                  j < k => Position(attempts[c][j]) < Position(attempts[c][k])
            /\ \A j, k \in 1..Len(attempts[c]) : j # k => attempts[c][j] # attempts[c][k]

C3_LanguagesNeverRaises ==
    \A c \in Calls :
        (op[c] = "languages" /\ Done(c)) =>
            /\ result[c].kind = "ok"
            /\ AllAttemptsFailed(c) =>
                  result[c].value = IF server = "lingva_server"
                                    THEN <<"auto", "en", "zh">>
                                    ELSE <<"auto", "en", "zh", "es", "fr", "de",
                                           "ja", "ko", "ru">>
            /\ entry[c].via = "rest_languages" =>
                  /\ RestReply(result[c]).status = 200
                  /\ RestReply(result[c]).success

\* a list-languages call on the REST server whose attempts all failed, the
\* primary's and four alternatives'
C3_Witness ==
    \E c \in Calls :
        /\ op[c] = "languages" /\ Done(c) /\ AllAttemptsFailed(c)
        /\ entry[c].via = "rest_languages"
        /\ Len(attempts[c]) = 5

\* C4: when the attempt against the primary succeeds the call returns at once:
\* no alternative is contacted, the primary and the alternatives list are left
\* as they are, and a translate result has no api_used field.
C4_PrimarySuccessReturns ==
    [][\A c \in Calls :
          /\ (pc[c] = "await_primary" /\ pc'[c] = "closing") =>
                /\ primary' = primary
                /\ alternatives' = alternatives
                /\ lastWriter' = lastWriter
                /\ attempts'[c] = attempts[c]
                /\ Len(attempts[c]) = 1
                /\ result'[c].kind = "ok"
                /\ op[c] = "translate" => "api_used" \notin DOMAIN result'[c].value
          /\ (pc[c] = "await_primary" /\ op[c] = "translate"
                /\ "translation" \in DOMAIN data'[c]) => pc'[c] = "closing"
          /\ (pc[c] = "closing" /\ pc'[c] # "closing") =>
                /\ pc'[c] = "done"
                /\ primary' = primary
                /\ alternatives' = alternatives
                /\ attempts'[c] = attempts[c]
                /\ result'[c] = result[c]
      ]_vars

\* a translate call that the primary served has returned
C4_Witness ==
    \E c \in Calls : op[c] = "translate" /\ ServedByPrimary(c)

\* an attempt of a translate call fails on a 2xx body parsed without the
\* translation field (the first such body of the call)
NoFieldStep(c) ==
    /\ op[c] = "translate"
    /\ pc[c] \in {"await_primary", "await_alt"}
    /\ pc'[c] = "scan"
    /\ data'[c] # data[c]

\* C5: in translate, an attempt answered 2xx without the translation field has
\* the effects of an attempt that fails in transport: an error tagged with the
\* endpoint is recorded, the primary is not changed, the scan continues.
C5_MissingFieldIsFailure ==
    [][\A c \in Calls :
          NoFieldStep(c) =>
              /\ primary' = primary
              /\ Len(errors'[c]) = Len(errors[c]) + 1
              /\ errors'[c][Len(errors'[c])] =
                    IF pc[c] = "await_primary" THEN "primary" ELSE LastUrl(c)
              /\ attempts'[c] = attempts[c]
      ]_vars

\* C6: two concurrent translate calls that failed on the same primary and
\* were served by different alternatives both return success, and the primary
\* is the alternative of the assignment executed last; the earlier one is
\* overwritten, nothing blocks or undoes either assignment.
C6_LastWriterWins ==
    \A c, d \in Calls :
        ( /\ c # d
          /\ op[c] = "translate" /\ op[d] = "translate"
          /\ overlap[c] /\ overlap[d]
          /\ pc[c] \in {"closing", "done"} /\ pc[d] \in {"closing", "done"}
          /\ Len(attempts[c]) > 1 /\ Len(attempts[d]) > 1
          /\ ~AllAttemptsFailed(c) /\ ~AllAttemptsFailed(d)
          /\ attempts[c][1] = attempts[d][1]
          /\ LastUrl(c) # LastUrl(d)
          /\ lastWriter = c ) =>
            /\ result[c].kind = "ok" /\ result[d].kind = "ok"
            /\ result[c].value.api_used = LastUrl(c)
            /\ result[d].value.api_used = LastUrl(d)
            /\ primary = LastUrl(c)
            /\ primary # LastUrl(d)

\* both calls have returned, the second assignment overwrote the first
C6_Witness ==
    \E c, d \in Calls :
        /\ c # d
        /\ op[c] = "translate" /\ op[d] = "translate"
        /\ overlap[c] /\ overlap[d]
        /\ Succeeded(c) /\ Succeeded(d)
        /\ Len(attempts[c]) > 1 /\ Len(attempts[d]) > 1
        /\ attempts[c][1] = attempts[d][1]
        /\ LastUrl(c) # LastUrl(d)
        /\ lastWriter = c
        /\ primary = LastUrl(c)

\* C7: a call running alone skips every alternative equal to the primary, so
\* it never attempts a second time the URL it attempted as the primary, and it
\* makes at most 1 + (number of alternatives different from the primary)
\* attempts.
C7_PrimaryNotRetried ==
    \A c \in Calls :
        (op[c] \in {"translate", "languages"} /\ Alone(c) /\ attempts[c] # <<>>) =>
            /\ attempts[c][1] \notin Range(Tail(attempts[c]))
            /\ Len(attempts[c]) <=
                  1 + Cardinality({ j \in DOMAIN alternatives :
                                       alternatives[j] # attempts[c][1] })

\* a parameter the caller gave, or its default
GivenOr(c, k, default) == IF k \in DOMAIN Given(c) THEN Given(c)[k] ELSE default

\* C8: time lookup with a name that is no known timezone returns a success
\* whose timezone field is "UTC"; with a known name the field is the name
\* asked for; any other failure raises, and the REST route answers HTTP 500.
C8_UnknownTimezoneIsUtc ==
    \A c \in Calls :
        (op[c] = "time" /\ Done(c)) =>
            LET tz == GivenOr(c, "timezone", "UTC")
                fmt == GivenOr(c, "format", "%Y-%m-%d %H:%M:%S")
                known == tz \in {"UTC", "Asia/Shanghai", "America/New_York"}
            IN  /\ fmt # "NUL" =>
                      /\ result[c].kind = "ok"
                      /\ result[c].value.timezone = IF known THEN tz ELSE "UTC"
                      /\ RestReply(result[c]).status = 200
                /\ fmt = "NUL" =>
                      /\ result[c].kind = "raised"
                      /\ RestReply(result[c]).status = 500

\* a time lookup for an unknown timezone has returned
C8_Witness ==
    \E c \in Calls :
        /\ op[c] = "time" /\ Done(c)
        /\ GivenOr(c, "timezone", "UTC") = "Mars/Olympus"
        /\ result[c].kind = "ok"

\* the facade request e is invalid caller input on this server
InvalidInput(e) ==
    \/ /\ e.via = "call_tool"
       /\ \/ (server = "translate_server" /\ e.name # "translate_text")
          \/ (server = "deepseek_server" /\ e.name # "ask_deepseek")
          \/ ~e.arguments.isdict
          \/ (server = "translate_server"
                /\ {"text", "target_lang"} \ DOMAIN e.arguments.map # {})
          \/ (server = "deepseek_server" /\ "prompt" \notin DOMAIN e.arguments.map)
    \/ /\ e.via = "read_resource"
       /\ \/ e.uri[3] # "/query"
          \/ (server = "translate_server" /\ e.uri[1] # "translate://")
          \/ (server = "deepseek_server" /\ e.uri[1] # "deepseek://")

\* C9: invalid caller input on the tool facade (unknown tool name, arguments
\* that are no mapping or lack a required argument, a resource URI that does
\* not match) raises before any upstream call: no attempt is made and the
\* primary is left unchanged.
C9_InvalidInputRejected ==
    [][\A c \in Calls :
          /\ (entry[c].via = "none" /\ InvalidInput(entry'[c])) =>
                /\ pc'[c] = "done"
                /\ result'[c].kind = "raised"
                /\ result'[c].error = "ValueError"
                /\ attempts' = attempts
                /\ primary' = primary
                /\ lastWriter' = lastWriter
          /\ InvalidInput(entry'[c]) => attempts'[c] = <<>>
      ]_vars

\* call_tool without target_lang and read_resource with a foreign URI were
\* rejected on the translate server
C9_Witness ==
    \E c, d \in Calls :
        /\ server = "translate_server"
        /\ Done(c) /\ Done(d)
        /\ entry[c].via = "call_tool" /\ entry[c].name = "translate_text"
        /\ entry[c].arguments.isdict
        /\ "target_lang" \notin DOMAIN Given(c)
        /\ entry[d].via = "read_resource" /\ entry[d].uri[1] = "deepseek://"

\* C10: a successful translate result has original_text, source_language and
\* target_language equal to the inputs, and translated_text equal to the
\* translation field of the response of the endpoint that served it.
C10_ResultEchoesInput ==
    \A c \in Calls :
        (op[c] = "translate" /\ result[c].kind = "ok") =>
            LET text == Given(c).text
                sl == GivenOr(c, "source_lang", "auto")
                tl == GivenOr(c, "target_lang", "zh")
                v == result[c].value
            IN  /\ v.original_text = text
                /\ v.source_language = sl
                /\ v.target_language = tl
                /\ v.translated_text =
                      TranslateBody(LastUrl(c), [text |-> text, source_lang |-> sl,
                                                 target_lang |-> tl], "ok").translation
                /\ v.translated_text.by = LastUrl(c)
                /\ ~AllAttemptsFailed(c)

\* a translation of a text with a space was served by the third attempt
C10_Witness ==
    \E c \in Calls :
        /\ op[c] = "translate" /\ Succeeded(c)
        /\ Given(c).text = <<"a", " ", "b">>
        /\ Len(attempts[c]) = 3

\* C11: a REST translate request whose gateway call ends in total failure is
\* answered with HTTP 500 whose detail holds the aggregated error, one message
\* per failed attempt; the route never answers 2xx with success=false, and it
\* answers success=true only with the result of an attempt that succeeded.
C11_RestTotalFailureIs500 ==
    \A c \in Calls :
        (entry[c].via = "rest_translate" /\ Done(c)) =>
            LET reply == RestReply(result[c])
            IN  /\ AllAttemptsFailed(c) =>
                      /\ reply.status = 500
                      /\ Len(reply.detail) = 1 + Len(attempts[c])
                      /\ reply.detail[1] = "All Lingva API endpoints failed"
                      /\ Tail(reply.detail) = errors[c]
                /\ reply.status \in {200, 500}
                /\ reply.status = 200 <=> reply.success
                /\ reply.success =>
                      /\ ~AllAttemptsFailed(c)
                      /\ reply.body.translated_text.by = LastUrl(c)

\* a REST translate request was answered after the primary and the four
\* alternatives failed
C11_Witness ==
    \E c \in Calls :
        /\ entry[c].via = "rest_translate" /\ Done(c)
        /\ AllAttemptsFailed(c)
        /\ Len(attempts[c]) = 5

\* C12: a caller of the translate_text tool of the multi-service facade
\* always receives a text, whatever the REST server answers (a success body,
\* HTTP 500 with the aggregated detail, a transport error); when the REST
\* server answered the total failure, the text carries its aggregated error.
C12_ToolAlwaysReturnsText ==
    \A c \in Calls :
        (op[c] = "tool_translate" /\ Done(c)) =>
            /\ result[c].kind = "ok"
            /\ ("response" \in DOMAIN data[c] /\ data[c].response.status = 500) =>
                  \A i \in DOMAIN data[c].response.detail :
                      \E j \in DOMAIN result[c].value :
                          result[c].value[j] = data[c].response.detail[i]

\* C13: for a call running alone the primary changes only in the step in
\* which an alternative's attempt succeeds and the call returns its result; a
\* translate call that raises the total-failure error and a list-languages
\* call that returns the built-in default list end with the primary equal to
\* the URL they attempted first, the primary at their start.
C13_PrimaryChangesOnlyOnSuccess ==
    [][\A c \in Calls :
          /\ (~overlap'[c] /\ pc'[c] # pc[c] /\ primary' # primary) =>
                /\ pc[c] = "await_alt"
                /\ pc'[c] = "closing"
                /\ result'[c].kind = "ok"
                /\ primary' = LastUrl(c)
          /\ (~overlap'[c] /\ pc[c] = "scan" /\ pc'[c] = "done") =>
                primary' = attempts[c][1]
      ]_vars

\* C14: in list-languages an alternative becomes the primary only in the step
\* in which its attempt succeeds (2xx and a body that parses as JSON, which
\* the call returns); an attempt that fails, a 2xx body that is no JSON
\* included, records an error and leaves the primary unchanged. After a
\* list-languages call that alternative k served, the next translate call
\* attempts k's URL first.
C14_LanguagesPromoteOnlyOnSuccess ==
    /\ [][\A c \in Calls :
             /\ (op[c] = "languages" /\ pc[c] = "await_alt" /\ pc'[c] = "scan") =>
                   /\ primary' = primary
                   /\ errors'[c] = Append(errors[c], LastUrl(c))
             /\ (op[c] = "languages" /\ pc[c] = "await_alt" /\ pc'[c] = "closing") =>
                   /\ primary' = LastUrl(c)
                   /\ result'[c].kind = "ok"
         ]_vars
    /\ [](\A c, d \in Calls :
             ( /\ op[c] = "languages" /\ ServedByAlternative(c)
               /\ Follows(d, c) /\ op[d] = "translate" /\ attempts[d] # <<>> ) =>
                 attempts[d][1] = LastUrl(c))

\* C15: after a failed primary attempt the alternatives are attempted in list
\* order and the scan stops at the first success: the scan passes over an
\* alternative without attempting it only when it equals the primary, a
\* failed attempt moves the scan to the next position, a success ends the
\* call with no further attempt, so that the alternative that serves the call
\* is the first one in list order whose attempt succeeds and every alternative
\* before it was attempted and failed or was skipped; no step changes the
\* alternatives list.
C15_ScanInListOrder ==
    /\ [][/\ alternatives' = alternatives
          /\ \A c \in Calls :
                /\ (pc[c] = "await_primary" /\ pc'[c] = "scan") => idx'[c] = 1
                /\ (pc[c] = "scan" /\ pc'[c] = "await_alt") =>
                      /\ idx'[c] \in idx[c]..Len(alternatives)
                      /\ \A k \in idx[c]..(idx'[c] - 1) : alternatives[k] = primary
                      /\ alternatives[idx'[c]] # primary
                      /\ attempts'[c] = Append(attempts[c], alternatives[idx'[c]])
                /\ (pc[c] = "scan" /\ pc'[c] = "done") =>
                      /\ \A k \in idx[c]..Len(alternatives) : alternatives[k] = primary
                      /\ attempts'[c] = attempts[c]
                      /\ AllAttemptsFailed(c)
                /\ (pc[c] = "await_alt" /\ pc'[c] = "scan") =>
                      /\ idx'[c] = idx[c] + 1
                      /\ attempts'[c] = attempts[c]
                      /\ Len(errors'[c]) = Len(errors[c]) + 1
                /\ (pc[c] = "await_alt" /\ pc'[c] = "closing") =>
                      /\ result'[c].kind = "ok"
                      /\ errors'[c] = errors[c]
                /\ pc[c] \in {"closing", "done"} => attempts'[c] = attempts[c]
         ]_vars
    /\ [](\A c \in Calls :
             (ServedByAlternative(c) /\ Alone(c)) =>
                 /\ LastUrl(c) = alternatives[idx[c]]
                 /\ Len(errors[c]) = Len(attempts[c]) - 1
                 /\ \A j, k \in 2..Len(attempts[c]) :
                       j < k => Position(attempts[c][j]) < Position(attempts[c][k])
                 /\ \A j \in 1..(idx[c] - 1) :
                       \/ alternatives[j] \in Range(Tail(attempts[c]))
                       \/ alternatives[j] = attempts[c][1])

\* a call was served by the third alternative of the list: the first one is
\* the primary and was skipped, the second one was attempted and failed
C15_Witness ==
    \E c \in Calls :
        /\ ServedByAlternative(c)
        /\ idx[c] = 3
        /\ attempts[c] = <<alternatives[1], alternatives[2], alternatives[3]>>

\* C16: a successful translate result has the field api_used exactly when an
\* alternative served it, not the primary; api_used is then the URL of that
\* alternative, and the step that produced the result wrote that URL into
\* the primary.
C16_ApiUsedIsPromoted ==
    /\ [](\A c \in Calls :
             (op[c] = "translate" /\ result[c].kind = "ok") =>
                 /\ "api_used" \in DOMAIN result[c].value <=> Len(attempts[c]) > 1
                 /\ Len(attempts[c]) > 1 =>
                       /\ result[c].value.api_used = LastUrl(c)
                       /\ result[c].value.api_used = alternatives[idx[c]]
                       /\ result[c].value.translated_text.by = result[c].value.api_used)
    /\ [][\A c \in Calls :
             ( /\ op[c] = "translate"
               /\ result[c].kind = "none" /\ result'[c].kind = "ok"
               /\ "api_used" \in DOMAIN result'[c].value ) =>
                 /\ primary' = result'[c].value.api_used
                 /\ lastWriter' = c
         ]_vars

\* a translate call returned a result with api_used, and the primary is
\* that URL and no longer the URL the call attempted first
C16_Witness ==
    \E c \in Calls :
        /\ op[c] = "translate" /\ Succeeded(c)
        /\ "api_used" \in DOMAIN result[c].value
        /\ primary = result[c].value.api_used
        /\ primary # attempts[c][1]
        /\ lastWriter = c

\* the gateway calls that have started, and the primary configured at start:
\* the URL the first of them attempted first (nothing assigns the primary
\* before an alternative of a gateway call has answered)
GatewayCalls == { c \in Calls : op[c] \in {"translate", "languages"} }
ConfiguredPrimary == attempts[CHOOSE c \in GatewayCalls :
                                 \A d \in GatewayCalls : c <= d][1]

\* C17: in every reachable state, whatever calls run one after the other or
\* interleaved and whatever the upstreams answer, the primary is the primary
\* configured at start or a URL of the alternatives list; a step that changes
\* the primary writes a URL of the alternatives list.
C17_PrimaryIsConfiguredEndpoint ==
    /\ [](GatewayCalls # {} =>
            primary \in {ConfiguredPrimary} \cup Range(alternatives))
    /\ [][/\ GatewayCalls = {} => primary' = primary
          /\ primary' # primary => primary' \in Range(alternatives)
         ]_vars

\* two calls have assigned the primary one after the other, and it is
\* neither the configured primary nor the URL the first of them wrote
C17_Witness ==
    \E c, d \in Calls :
        /\ c # d /\ lastWriter = d
        /\ ServedByAlternative(c) /\ ServedByAlternative(d)
        /\ primary \notin {ConfiguredPrimary, LastUrl(c)}
        /\ ConfiguredPrimary \notin Range(alternatives)

\* the call attempted no URL more than once
NoUrlTwice(c) ==
    \A j, k \in 1..Len(attempts[c]) : j # k => attempts[c][j] # attempts[c][k]

\* C18 as stated: within one call no endpoint URL is attempted more than
\* once, also when other calls promote an alternative while this call is
\* suspended between its primary attempt and its scan.
C18_NoUrlTwice ==
    \A c \in Calls : NoUrlTwice(c)

EndpointsOf(c) == {attempts[c][1]} \cup Range(alternatives)

\* C19 as stated: a translate call that raises the total-failure error has
\* itself attempted, and seen fail, every URL of its primary and the
\* alternatives list, also when other calls run concurrently.
C19_FailureAttemptedAll ==
    \A c \in Calls :
        TotalFailure(c) =>
            /\ AllAttemptsFailed(c)
            /\ EndpointsOf(c) \subseteq Range(attempts[c])

ScannedToTheEnd(c) ==
    /\ c \in GatewayCalls
    /\ Done(c) /\ Alone(c)
    /\ AllAttemptsFailed(c)

\* C20 as stated: the primary configured at start stays a candidate: after
\* any sequence of calls and promotions, a call whose primary attempt fails
\* and whose scan runs to its end has attempted the configured primary.
C20_ConfiguredPrimaryStaysCandidate ==
    \A c \in Calls :
        ScannedToTheEnd(c) => ConfiguredPrimary \in Range(attempts[c])

\* C20 as stated, on translate calls of translate_server.py, where only a
\* successful attempt assigns the primary
C20_ConfiguredPrimaryStaysCandidate_Translate ==
    (server = "translate_server" /\ \A d \in Calls : op[d] # "languages") =>
        C20_ConfiguredPrimaryStaysCandidate

\* C20 amended: the configured primary stays a candidate exactly when it is
\* in the alternatives list. If it is, a call running alone whose scan runs
\* to its end has attempted it. If it is not (--api-url, LINGVA_API_URL), it
\* is attempted only as the primary: once a promotion has replaced it, the
\* primary never is that URL again and no call that starts later attempts it.
C20_ConfiguredPrimaryLostOutsideList ==
    /\ [](GatewayCalls # {} =>
            /\ \A c \in Calls :
                  (ScannedToTheEnd(c) /\ ConfiguredPrimary \in Range(alternatives)) =>
                      ConfiguredPrimary \in Range(attempts[c])
            /\ \A c \in GatewayCalls :
                  ( /\ ConfiguredPrimary \notin Range(alternatives)
                    /\ attempts[c][1] # ConfiguredPrimary ) =>
                      ConfiguredPrimary \notin Range(attempts[c]))
    /\ [][( /\ GatewayCalls # {}
            /\ ConfiguredPrimary \notin Range(alternatives)
            /\ primary # ConfiguredPrimary ) =>
              primary' # ConfiguredPrimary
        ]_vars

\* the configured primary is not in the list and was replaced by the first
\* call; the scan of the second call ran to its end without attempting it
C20_Witness ==
    \E c, d \in Calls :
        /\ ServedByAlternative(c)
        /\ attempts[c][1] \notin Range(alternatives)
        /\ Follows(d, c)
        /\ ScannedToTheEnd(d)
        /\ attempts[c][1] \notin Range(attempts[d])
        /\ Len(attempts[d]) = Len(alternatives)

\* C21: LingvaService and the functions of translate_server.py, started with
\* the same primary and alternatives and given the same calls against the
\* same answers of the endpoints, send the same requests in the same order,
\* return the same result or raise the same error, and hold the same primary
\* after each call.
C21_SameObservations ==
    twin.calls > 0 =>
        /\ twin.service.attempts = twin.module.attempts
        /\ twin.service.primary = twin.module.primary
        /\ twin.service.result = twin.module.result

\* a translate or list-languages call that has started and not yet ended
Running(c) == c \in GatewayCalls /\ Active(c)

\* C22: every translate or list-languages call ends, with a success, the
\* total-failure error or the default list, after at most 1 + (length of the
\* alternatives list) attempts, whatever other calls do to the primary
\* meanwhile, provided every attempt gets its answer or fails; the scan of a
\* call only moves forward in the list, a call sends no request after its
\* result is there.
C22_CallsTerminate ==
    /\ [](\A c \in GatewayCalls :
             /\ Len(attempts[c]) <= 1 + Len(alternatives)
             /\ Done(c) =>
                   \/ result[c].kind = "ok"
                   \/ /\ op[c] = "translate"
                      /\ result[c].kind = "raised"
                      /\ result[c].error = "RuntimeError"
                      /\ AllAttemptsFailed(c))
    /\ [][\A c \in Calls :
             /\ idx'[c] >= idx[c]
             /\ (pc[c] = "await_alt" /\ pc'[c] = "scan") => idx'[c] > idx[c]
             /\ pc[c] \in {"closing", "done"} =>
                   attempts'[c] = attempts[c] /\ pc'[c] \in {"closing", "done"}
         ]_vars
    /\ \A c \in Calls : Running(c) ~> Done(c)

\* a call that overlapped another one has ended after 1 + (length of the
\* alternatives list) attempts, one of them a second attempt on its first URL
C22_Witness ==
    \E c \in GatewayCalls :
        /\ Done(c) /\ overlap[c]
        /\ Len(attempts[c]) = 1 + Len(alternatives)
        /\ attempts[c][1] \in Range(Tail(attempts[c]))

====
